---------------------------- MODULE Spec2Model ----------------------------
(***************************************************************************)
(* Model of GMT147SPI-ST7789.cpp: the safe-zone character grid computed by *)
(* testCharacterCapacity, the row labels it builds in a 64-byte buffer,    *)
(* and main's initialisation and test loop.                                *)
(*                                                                         *)
(* Characters are their ASCII codes.  The display size and the margin are  *)
(* globals of the file; the layout specification Spec lets them range over *)
(* bounded sets so that the arithmetic is exercised beyond the one panel   *)
(* the file is configured for, while MainSpec runs main with the file's    *)
(* own values.                                                             *)
(***************************************************************************)
EXTENDS Integers, Sequences, FiniteSets, TLC

VARIABLES
    pc,                 \* position in testCharacterCapacity
    lcdW, lcdH,         \* display geometry in effect (lcd_width, lcd_height)
    margin,             \* margin in effect (SAFE_MARGIN)
    textSize,           \* the uint8_t parameter
    actualCharWidth, actualCharHeight,
    safeWidth, safeHeight,
    charsPerRow, numRows,
    total,              \* "Total characters" printed on serial
    row,                \* loop variable of the row loop
    cursor,             \* last GFX_setCursor position <<x, y>>
    label,              \* last string handed to GFX_printf("%s", buffer)
    nulIndex,           \* index of the last buffer[charsPerRow] = '\0' store
    oob,                \* a store outside buffer[0..63] has happened
    divZero,            \* an integer division by zero has happened
    mpc,                \* position in main
    testNum,            \* main's uint8_t testNum
    ip,                 \* index of the next library call of a straight-line body
    slept,              \* seconds elapsed in the current sleep_ms
    running,            \* test function being executed ("none" outside)
    lastCall,           \* last library call made
    prevTest,           \* the test that ran before the current one ("none" at first)
    ranThisIter,        \* tests started in the current iteration of main's loop
    setupLog,           \* the LCD_ and framebuffer set-up calls made so far
    iterLog             \* the GFX_ calls of the current test, in order

layoutVars == <<pc, lcdW, lcdH, margin, textSize, actualCharWidth,
                actualCharHeight, safeWidth, safeHeight, charsPerRow, numRows,
                total, row, cursor, label, nulIndex, oob, divZero>>
mainVars == <<mpc, testNum, ip, slept, running, lastCall>>
histVars == <<prevTest, ranThisIter, setupLog>>
vars == <<layoutVars, mainVars, histVars, iterLog>>

---------------------------------------------------------------------------
(* Program constants *)

lcd_width == 172
lcd_height == 320
SAFE_MARGIN == 10
charWidth == 6
charHeight == 8
BufferSize == 64
Uint8Max == 255
CapacityTextSize == 2
NumTests == 4
HoldSeconds == 8

NUL == 0
Ch_0 == 48
Ch_Colon == 58
Ch_A == 65
Ch_R == 82
AlphabetLen == 26
\* a byte whose value the program never set (stack garbage)
Indeterminate == -1

(* Bounds of the layout specification *)
MaxTextSize == 3
MaxMargin == 92
MaxSmallW == 13
MaxSmallH == 17
MaxSmallMargin == 7
WideW == 394
TallH == 816

Min(a, b) == IF a < b THEN a ELSE b
Max(a, b) == IF a > b THEN a ELSE b

---------------------------------------------------------------------------
(* C arithmetic and formatting *)

CDivRoundUp(a, b) == IF a >= 0 THEN (a + b - 1) \div b ELSE -((-a) \div b)
\* int / int with a positive divisor: the quotient truncated toward zero
CDiv(a, b) == IF a >= 0 THEN a \div b ELSE -((-a) \div b)

SafeExtentOneSide(extent, m) == extent - m
\* lcd_width - (SAFE_MARGIN * 2)
SafeExtent(extent, m) == extent - (m * 2)

RECURSIVE Decimal(_)
Decimal(n) == IF n < 10 THEN <<Ch_0 + n>>
              ELSE Decimal(n \div 10) \o <<Ch_0 + (n % 10)>>

\* "%02d" of a non-negative int
Pad2(n) == IF n < 10 THEN <<Ch_0>> \o Decimal(n) ELSE Decimal(n)

\* "R%02d:"
FormatPrefix(r) == <<Ch_R>> \o Pad2(r) \o <<Ch_Colon>>

CursorOneRowDown(m, r, cellHeight) == <<m, m + ((r + 1) * cellHeight)>>
\* GFX_setCursor(SAFE_MARGIN, SAFE_MARGIN + (row * actualCharHeight))
CursorFor(m, r, cellHeight) == <<m, m + (r * cellHeight)>>

FillerCharConstant(i) == Ch_A
\* 'A' + (i % 26)
FillerChar(i) == Ch_A + (i % AlphabetLen)

---------------------------------------------------------------------------
(* The 64-byte label buffer: a function from 0..63 to bytes *)

FreshBuffer == [k \in 0..(BufferSize - 1) |-> Indeterminate]

\* snprintf(buffer, sizeof(buffer), ...): at most size-1 characters and a NUL
SnprintfBuf(buf, s) ==
    LET n == Min(Len(s), BufferSize - 1)
    IN [k \in DOMAIN buf |-> IF k < n THEN s[k + 1]
                             ELSE IF k = n THEN NUL ELSE buf[k]]

\* for (i = 0; i < remaining && (written + i) < sizeof(buffer) - 1; i++)
\*     buffer[written + i] = 'A' + (i % 26);
FillBuf(buf, written, remaining) ==
    [k \in DOMAIN buf |->
        IF k >= written /\ (k - written) < remaining /\ k < BufferSize - 1
        THEN FillerChar(k - written) ELSE buf[k]]

InBuffer(idx) == idx \in 0..(BufferSize - 1)

TerminateOmitted(buf, idx) == buf
\* buffer[charsPerRow] = '\0': lands in the buffer only when the index is in it
Terminate(buf, idx) == IF InBuffer(idx) THEN [buf EXCEPT ![idx] = NUL] ELSE buf

\* the buffer after lines 167-176 for one row
RowBuffer(r, cols) ==
    LET written == Len(FormatPrefix(r))
        remaining == cols - written
    IN Terminate(FillBuf(SnprintfBuf(FreshBuffer, FormatPrefix(r)),
                         written, remaining), cols)

\* index of the first byte of buf that is not a set, non-NUL character
StopIndex(buf) ==
    LET S == {k \in DOMAIN buf : buf[k] \in {NUL, Indeterminate}}
    IN IF S = {} THEN BufferSize
       ELSE CHOOSE k \in S : \A j \in S : k <= j

\* The strings "%s" can print from the buffer.  When the first NUL is one the
\* program stored, there is one.  Otherwise the read runs into bytes nobody
\* set (buffer[63] and the stack behind it) and stops at whichever of them is
\* zero, at the latest where the out-of-range terminator was stored.
CStrings(buf, cols) ==
    LET stop == StopIndex(buf)
        head == [i \in 1..stop |-> buf[i - 1]]
    IN IF stop < BufferSize /\ buf[stop] = NUL
       THEN {head}
       ELSE {head \o [i \in 1..g |-> Indeterminate] :
                 g \in 0..Max(0, cols - stop)}

---------------------------------------------------------------------------
(* Inputs of the layout specification *)

TextSizes == 0..MaxTextSize

\* <<lcd_width, lcd_height, SAFE_MARGIN, textSize>>
Configs ==
    \* the file's own configuration, every value of the uint8_t parameter
    {<<lcd_width, lcd_height, SAFE_MARGIN, s>> : s \in 0..Uint8Max}
    \* the panel with other margins
    \cup {<<lcd_width, lcd_height, m, s>> : m \in 0..MaxMargin, s \in TextSizes}
    \* small panels
    \cup {<<w, h, m, s>> : w \in 1..MaxSmallW, h \in 1..MaxSmallH,
                           m \in 0..MaxSmallMargin, s \in TextSizes}
    \* a wide panel: as many columns as the buffer holds, and more
    \cup {<<WideW, lcd_height, m, s>> : m \in 0..MaxSmallMargin, s \in TextSizes}
    \* tall panels: row numbers of three digits
    \cup {<<w, TallH, m, s>> : w \in {MaxSmallW, 2 * MaxSmallW, lcd_width},
                               m \in 0..MaxSmallMargin, s \in TextSizes}

\* what a division by zero may leave in the quotient when it does not trap
DivZeroQuotients == {-1, 0, 1}

---------------------------------------------------------------------------
(* testCharacterCapacity *)

Init ==
    /\ pc = "idle"
    /\ lcdW = lcd_width /\ lcdH = lcd_height /\ margin = SAFE_MARGIN
    /\ textSize = 0
    /\ actualCharWidth = 0 /\ actualCharHeight = 0
    /\ safeWidth = 0 /\ safeHeight = 0
    /\ charsPerRow = 0 /\ numRows = 0 /\ total = 0
    /\ row = 0
    /\ cursor = <<0, 0>>
    /\ label = <<>>
    /\ nulIndex = 0
    /\ oob = FALSE
    /\ divZero = FALSE
    /\ mpc = "start" /\ testNum = 0 /\ ip = 1 /\ slept = 0
    /\ running = "none" /\ lastCall = "none"
    /\ prevTest = "none" /\ ranThisIter = 0
    /\ setupLog = <<>> /\ iterLog = <<>>

\* lines 121-156: the grid computation, the serial report, the screen set-up
CapEnter(w, h, m, s) ==
    /\ pc = "idle"
    /\ lcdW' = w /\ lcdH' = h /\ margin' = m /\ textSize' = s
    /\ actualCharWidth' = charWidth * s
    /\ actualCharHeight' = charHeight * s
    /\ safeWidth' = SafeExtent(w, m)
    /\ safeHeight' = SafeExtent(h, m)
    /\ IF s = 0
       THEN /\ divZero' = TRUE
            /\ \/ /\ pc' = "fault"
                  /\ UNCHANGED <<charsPerRow, numRows, total>>
               \/ \E qc \in DivZeroQuotients, qr \in DivZeroQuotients :
                     /\ charsPerRow' = qc
                     /\ numRows' = qr
                     /\ total' = qc * qr
                     /\ pc' = "loop"
       ELSE /\ charsPerRow' = CDiv(SafeExtent(w, m), charWidth * s)
            /\ numRows' = CDiv(SafeExtent(h, m), charHeight * s)
            /\ total' = charsPerRow' * numRows'
            /\ divZero' = FALSE
            /\ pc' = "loop"
    /\ row' = 0
    /\ cursor' = <<0, 0>>
    /\ label' = <<>>
    /\ nulIndex' = 0
    /\ oob' = FALSE
    /\ lastCall' = IF pc' = "fault" THEN lastCall ELSE "GFX_setTextColor"
    /\ iterLog' = IF pc' = "fault" THEN iterLog
                  ELSE iterLog \o <<"GFX_fillScreen", "GFX_setTextSize",
                                    "GFX_setTextColor">>
    /\ running' = "testCharacterCapacity"

\* lines 160-185: one iteration of the row loop
CapDrawRow ==
    /\ pc = "loop"
    /\ row < numRows
    /\ cursor' = CursorFor(margin, row, actualCharHeight)
    /\ nulIndex' = charsPerRow
    /\ oob' = (oob \/ ~InBuffer(charsPerRow))
    /\ label' \in CStrings(RowBuffer(row, charsPerRow), charsPerRow)
    /\ row' = row + 1
    /\ lastCall' = "GFX_printf"
    /\ iterLog' = iterLog \o <<"GFX_setCursor", "GFX_printf">>
    /\ UNCHANGED <<pc, lcdW, lcdH, margin, textSize, actualCharWidth,
                   actualCharHeight, safeWidth, safeHeight, charsPerRow,
                   numRows, total, divZero, running>>

\* lines 187-195: the border, the flush, the return
CapFinish ==
    /\ pc = "loop"
    /\ row >= numRows
    /\ pc' = "done"
    /\ lastCall' = "GFX_flush"
    /\ iterLog' = iterLog \o <<"GFX_drawRect", "GFX_flush">>
    /\ UNCHANGED <<lcdW, lcdH, margin, textSize, actualCharWidth,
                   actualCharHeight, safeWidth, safeHeight, charsPerRow,
                   numRows, total, row, cursor, label, nulIndex, oob, divZero,
                   running>>

\* back in the caller: the locals are gone
CapReturn ==
    /\ pc = "done"
    /\ pc' = "idle"
    /\ running' = "none"
    /\ lcdW' = lcd_width /\ lcdH' = lcd_height /\ margin' = SAFE_MARGIN
    /\ textSize' = 0
    /\ actualCharWidth' = 0 /\ actualCharHeight' = 0
    /\ safeWidth' = 0 /\ safeHeight' = 0
    /\ charsPerRow' = 0 /\ numRows' = 0 /\ total' = 0
    /\ row' = 0
    /\ cursor' = <<0, 0>>
    /\ label' = <<>>
    /\ nulIndex' = 0
    /\ oob' = FALSE
    /\ divZero' = FALSE
    /\ UNCHANGED lastCall

CapCall ==
    /\ pc = "idle"
    /\ \E c \in Configs : CapEnter(c[1], c[2], c[3], c[4])
    /\ UNCHANGED <<mpc, testNum, ip, slept, histVars>>

CapRow == CapDrawRow /\ UNCHANGED <<mpc, testNum, ip, slept, histVars>>

CapEnd == CapFinish /\ UNCHANGED <<mpc, testNum, ip, slept, histVars>>

CapBack ==
    /\ CapReturn
    /\ iterLog' = <<>>
    /\ UNCHANGED <<mpc, testNum, ip, slept, histVars>>

Next == CapCall \/ CapRow \/ CapEnd \/ CapBack

Spec == Init /\ [][Next]_vars

---------------------------------------------------------------------------
(* main: the library calls of each straight-line body, serial output left *)
(* out                                                                     *)

\* lines 461-488
MainInitCalls ==
    <<"stdio_init_all", "sleep_ms", "LCD_setPins", "LCD_setSPIperiph",
      "LCD_initDisplay", "LCD_setRotation", "GFX_createFramebuf">>

TextAt == <<"GFX_setTextColor", "GFX_setCursor", "GFX_printf">>

\* lines 303-366
TestSafeZoneCalls ==
    <<"GFX_fillScreen", "GFX_drawRect", "GFX_drawRect", "GFX_drawRect",
      "GFX_drawRect", "GFX_drawRect", "GFX_drawRect", "GFX_setTextSize">>
    \o TextAt \o TextAt \o TextAt \o TextAt \o TextAt \o <<"GFX_flush">>

\* lines 402-457
TestPracticalLayoutCalls ==
    <<"GFX_fillScreen", "GFX_setTextSize">> \o TextAt \o TextAt
    \o <<"GFX_setCursor", "GFX_printf", "GFX_setCursor", "GFX_printf">>
    \o TextAt \o TextAt \o <<"GFX_flush">>

\* lines 203-249
TestReadabilityCalls ==
    <<"GFX_fillScreen",
      "GFX_setTextSize", "GFX_setTextColor", "GFX_setCursor", "GFX_printf",
      "GFX_setTextSize", "GFX_setTextColor", "GFX_setCursor", "GFX_printf",
      "GFX_setTextSize", "GFX_setTextColor", "GFX_setCursor", "GFX_printf",
      "GFX_setCursor", "GFX_printf",
      "GFX_setTextSize", "GFX_setTextColor", "GFX_setCursor", "GFX_printf",
      "GFX_setCursor", "GFX_printf", "GFX_flush">>

SimpleDemoCallsNoFlush ==
    <<"GFX_fillScreen", "GFX_setTextSize">> \o TextAt \o TextAt

\* lines 536-550: case 3, drawn inline by main
SimpleDemoCalls ==
    <<"GFX_fillScreen", "GFX_setTextSize">> \o TextAt \o TextAt
    \o <<"GFX_flush">>

\* the display and framebuffer set-up calls (lines 470-488)
SetupCalls ==
    {"LCD_setPins", "LCD_setSPIperiph", "LCD_initDisplay", "LCD_setRotation",
     "GFX_createFramebuf"}

\* the set-up log after one more library call
LogSetup(log, call) == IF call \in SetupCalls THEN Append(log, call) ELSE log

\* the drawing log after one more library call
LogDraw(log, call) == IF call \in SetupCalls THEN log ELSE Append(log, call)

\* the test functions the file defines
DefinedTestFunctions ==
    {"testCharacterCapacity", "testReadability", "testSafeZone",
     "testPracticalLayout"}

\* the switch of main's loop: what each case with a straight-line body runs
CaseName(n) == IF n = 0 THEN "testSafeZone"
               ELSE IF n = 1 THEN "testPracticalLayout"
               ELSE "simpleDemo"

CaseCalls(n) == IF n = 0 THEN TestSafeZoneCalls
                ELSE IF n = 1 THEN TestPracticalLayoutCalls
                ELSE SimpleDemoCalls

\* lines 461-488, one library call at a time
MainInitStep ==
    /\ mpc = "start"
    /\ lastCall' = MainInitCalls[ip]
    /\ IF ip = Len(MainInitCalls)
       THEN mpc' = "switch" /\ ip' = 1
       ELSE mpc' = mpc /\ ip' = ip + 1
    /\ setupLog' = LogSetup(setupLog, MainInitCalls[ip])
    /\ UNCHANGED <<layoutVars, testNum, slept, running, prevTest, ranThisIter,
                   iterLog>>

\* cases 0, 1 and 3 of the switch
MainDispatchBody ==
    /\ mpc = "switch"
    /\ testNum \in {0, 1, 3}
    /\ running' = CaseName(testNum)
    /\ mpc' = "body"
    /\ ip' = 1
    /\ ranThisIter' = ranThisIter + 1
    /\ UNCHANGED <<layoutVars, testNum, slept, lastCall, prevTest, setupLog,
                   iterLog>>

\* case 2: testCharacterCapacity(2)
MainDispatchCapacity ==
    /\ mpc = "switch"
    /\ testNum = 2
    /\ CapEnter(lcd_width, lcd_height, SAFE_MARGIN, CapacityTextSize)
    /\ mpc' = "capacity"
    /\ ranThisIter' = ranThisIter + 1
    /\ UNCHANGED <<testNum, ip, slept, prevTest, setupLog>>

\* the next library call of the running body
BodyStep ==
    /\ mpc = "body"
    /\ ip <= Len(CaseCalls(testNum))
    /\ lastCall' = CaseCalls(testNum)[ip]
    /\ ip' = ip + 1
    /\ iterLog' = LogDraw(iterLog, CaseCalls(testNum)[ip])
    /\ setupLog' = LogSetup(setupLog, CaseCalls(testNum)[ip])
    /\ UNCHANGED <<layoutVars, mpc, testNum, slept, running, prevTest,
                   ranThisIter>>

\* the body is through: break, and sleep_ms(8000) begins
BodyReturn ==
    /\ mpc = "body"
    /\ ip > Len(CaseCalls(testNum))
    /\ running' = "none"
    /\ mpc' = "sleep"
    /\ slept' = 0
    /\ ip' = 1
    /\ prevTest' = running
    /\ UNCHANGED <<layoutVars, testNum, lastCall, ranThisIter, setupLog,
                   iterLog>>

MainCapRow ==
    /\ mpc = "capacity"
    /\ CapDrawRow
    /\ UNCHANGED <<mpc, testNum, ip, slept, histVars>>

MainCapEnd ==
    /\ mpc = "capacity"
    /\ CapFinish
    /\ UNCHANGED <<mpc, testNum, ip, slept, histVars>>

MainCapBack ==
    /\ mpc = "capacity"
    /\ CapReturn
    /\ mpc' = "sleep"
    /\ slept' = 0
    /\ prevTest' = running
    /\ UNCHANGED <<testNum, ip, ranThisIter, setupLog, iterLog>>

\* one second of sleep_ms(8000)
SleepTick ==
    /\ mpc = "sleep"
    /\ slept < HoldSeconds
    /\ slept' = slept + 1
    /\ UNCHANGED <<layoutVars, mpc, testNum, ip, running, lastCall, histVars,
                   iterLog>>

NextTestNumSkipping(n) == ((n + 2) % NumTests) % (Uint8Max + 1)
\* testNum = (testNum + 1) % 4, in a uint8_t
NextTestNum(n) == ((n + 1) % NumTests) % (Uint8Max + 1)

\* lines 553-556: the sleep is over, the next test is selected
Advance ==
    /\ mpc = "sleep"
    /\ slept = HoldSeconds
    /\ testNum' = NextTestNum(testNum)
    /\ mpc' = "switch"
    /\ ranThisIter' = 0
    /\ iterLog' = <<>>
    /\ UNCHANGED <<layoutVars, ip, slept, running, lastCall, prevTest,
                   setupLog>>

MainNext ==
    \/ MainInitStep
    \/ MainDispatchBody
    \/ MainDispatchCapacity
    \/ BodyStep
    \/ BodyReturn
    \/ MainCapRow
    \/ MainCapEnd
    \/ MainCapBack
    \/ SleepTick
    \/ Advance

\* main is one thread that never blocks for good: every call returns, every
\* sleep ends
MainSpec == Init /\ [][MainNext]_vars /\ WF_vars(MainNext)

---------------------------------------------------------------------------
(* Properties of the grid computation and of the row labels (under Spec) *)

\* the function is past its grid computation, called with a text size >= 1
Computed == pc \in {"loop", "done"} /\ textSize >= 1

\* at least one row has been drawn; the last one drawn is row - 1
Drawn == Computed /\ row >= 1

\* "R", the row index in at least two decimal digits, ":"
ExpectedPrefix(r) ==
    IF r < 100 THEN <<Ch_R, Ch_0 + (r \div 10), Ch_0 + (r % 10), Ch_Colon>>
    ELSE <<Ch_R>> \o Decimal(r) \o <<Ch_Colon>>

\* the prefix followed by 'A' + (i mod 26), cols characters in all
ExpectedLabel(r, cols) ==
    ExpectedPrefix(r) \o
    [i \in 1..(cols - Len(ExpectedPrefix(r))) |-> Ch_A + ((i - 1) % AlphabetLen)]

\* C1: with a positive safe width (height), columns (rows) is the largest
\* count of 6*scale (8*scale) pixel cells that fits into it.
C1_GridBrackets ==
    Computed =>
        /\ (lcdW - 2 * margin > 0 =>
               /\ charsPerRow * (6 * textSize) <= lcdW - 2 * margin
               /\ lcdW - 2 * margin < (charsPerRow + 1) * (6 * textSize))
        /\ (lcdH - 2 * margin > 0 =>
               /\ numRows * (8 * textSize) <= lcdH - 2 * margin
               /\ lcdH - 2 * margin < (numRows + 1) * (8 * textSize))

C1_Witness ==
    /\ pc = "done" /\ textSize = 2
    /\ lcdW = 172 /\ lcdH = 320 /\ margin = 10
    /\ charsPerRow = 12 /\ numRows = 18

\* C2: columns and rows are never negative, and are 0 whenever the safe
\* width (height) is not positive, however far the margin exceeds the panel.
C2_ClampedToZero ==
    Computed =>
        /\ charsPerRow >= 0
        /\ numRows >= 0
        /\ (lcdW - 2 * margin <= 0 => charsPerRow = 0)
        /\ (lcdH - 2 * margin <= 0 => numRows = 0)

\* C3: a drawn row's label has length exactly min(columns, 63).
C3_LabelLength ==
    (Drawn /\ charsPerRow >= 0) =>
        Len(label) = Min(charsPerRow, BufferSize - 1)

\* C4: with a text size >= 1 no division by zero happens and every store
\* into the label buffer, the terminator at index columns included, is at an
\* index in 0..63.
C4_NoFailure ==
    Computed =>
        /\ ~divZero
        /\ ~oob
        /\ (row >= 1 => nulIndex \in 0..63)

\* C5: with columns at least the prefix length, the label is the prefix
\* "R<row, two digits>:" followed by the fillers 'A' + (i mod 26), and its
\* total length is columns.
C5_LabelContent ==
    (Drawn /\ charsPerRow >= Len(ExpectedPrefix(row - 1))) =>
        label = ExpectedLabel(row - 1, charsPerRow)

\* C6 as stated: the label of row 5 with 12 columns is "R05:AAAAAAAA".
C6_Row5AllA ==
    (Drawn /\ row - 1 = 5 /\ charsPerRow = 12) =>
        label = <<82, 48, 53, 58, 65, 65, 65, 65, 65, 65, 65, 65>>

\* C6 as amended: the label of row 5 with 12 columns is "R05:ABCDEFGH", the
\* 4-character prefix and the first 8 letters of the alphabet, 12 in all.
C6_Row5Alphabet ==
    (Drawn /\ row - 1 = 5 /\ charsPerRow = 12) =>
        label = <<82, 48, 53, 58, 65, 66, 67, 68, 69, 70, 71, 72>>

C6_Witness == Drawn /\ row - 1 = 5 /\ charsPerRow = 12 /\ Len(label) = 12

\* C7: with 0 <= columns < prefix length the label is the first columns
\* characters of the prefix, nothing else, and the terminator is in range.
C7_PrefixCutShort ==
    (Drawn /\ charsPerRow >= 0 /\ charsPerRow < Len(ExpectedPrefix(row - 1))) =>
        /\ label = SubSeq(ExpectedPrefix(row - 1), 1, charsPerRow)
        /\ nulIndex = charsPerRow
        /\ ~oob

C7_Witness ==
    /\ Drawn /\ charsPerRow = 2 /\ row - 1 = 1
    /\ label = <<82, 48>>

\* C8: the grids of the 172x320 panel, and total = columns * rows.
C8_PanelGrids ==
    (Computed /\ lcdW = 172 /\ lcdH = 320) =>
        /\ (margin = 10 /\ textSize = 1 =>
               charsPerRow = 25 /\ numRows = 37 /\ total = 925)
        /\ (margin = 10 /\ textSize = 2 =>
               /\ safeWidth = 152 /\ safeHeight = 300
               /\ charsPerRow = 12 /\ numRows = 18 /\ total = 216)
        /\ (margin = 10 /\ textSize = 3 =>
               charsPerRow = 8 /\ numRows = 12 /\ total = 96)
        /\ (margin = 20 /\ textSize = 2 =>
               /\ safeWidth = 132 /\ safeHeight = 280
               /\ charsPerRow = 11 /\ numRows = 17 /\ total = 187)
        /\ total = charsPerRow * numRows

C8_Witness ==
    /\ pc = "done" /\ lcdW = 172 /\ lcdH = 320
    /\ margin = 20 /\ textSize = 2 /\ total = 187

\* the file's own display size and margin are in effect
OwnConfig == lcdW = lcd_width /\ lcdH = lcd_height /\ margin = SAFE_MARGIN

\* C10: with the file's display size and margin, every row drawn starts at
\* (SAFE_MARGIN, SAFE_MARGIN + row*cellHeight) and its box of
\* charsPerRow x 1 cells (and the label printed in it) ends inside the
\* margin on the right and at the bottom.
C10_RowsInsideSafeZone ==
    (Drawn /\ OwnConfig) =>
        /\ cursor = <<SAFE_MARGIN, SAFE_MARGIN + (row - 1) * (8 * textSize)>>
        /\ cursor[1] + charsPerRow * (6 * textSize) <= lcd_width - SAFE_MARGIN
        /\ cursor[1] + Len(label) * (6 * textSize) <= lcd_width - SAFE_MARGIN
        /\ cursor[2] + (8 * textSize) <= lcd_height - SAFE_MARGIN

\* the last row of the size-2 grid has been drawn
C10_Witness ==
    /\ Drawn /\ OwnConfig /\ textSize = 2
    /\ row = numRows /\ row = 18 /\ cursor = <<10, 282>>

---------------------------------------------------------------------------
(* Properties of main's loop (under MainSpec) *)

\* C9: every test function the file defines is invoked infinitely often,
\* and each test is held for 8 seconds before the next one is selected.
C9_AllTestsInfinitelyOften ==
    /\ []<>(running = "testSafeZone")
    /\ []<>(running = "testPracticalLayout")
    /\ []<>(running = "testCharacterCapacity")
    /\ []<>(running = "testReadability")
    /\ [](mpc = "switch" /\ lastCall = "GFX_flush" => slept = HoldSeconds)

\* the order the claim gives the tests, by testNum
ClaimedOrder ==
    <<"testSafeZone", "testPracticalLayout", "testCharacterCapacity",
      "simpleDemo">>

\* C11: testNum stays in 0..3; an iteration of the loop runs exactly one
\* test, the one ClaimedOrder gives for testNum; and the test that ran
\* before it is its predecessor in the cycle (none before the very first),
\* so that no test is skipped or run twice in a row.
C11_TestOrder ==
    /\ testNum \in 0..3
    /\ ranThisIter \in 0..1
    /\ (mpc \in {"body", "capacity", "sleep"} => ranThisIter = 1)
    /\ (running # "none" =>
           /\ running = ClaimedOrder[testNum + 1]
           /\ (running = "testCharacterCapacity" => textSize = 2)
           /\ running # prevTest
           /\ \/ prevTest = "none" /\ testNum = 0
              \/ prevTest = ClaimedOrder[((testNum + 3) % 4) + 1])
    /\ (mpc = "sleep" => prevTest = ClaimedOrder[testNum + 1])

\* the cycle has wrapped around: testSafeZone runs again after the demo
C11_Witness ==
    /\ running = "testSafeZone" /\ prevTest = "simpleDemo" /\ testNum = 0

\* the set-up calls in the order the claim gives them
ClaimedSetup ==
    <<"LCD_setPins", "LCD_setSPIperiph", "LCD_initDisplay", "LCD_setRotation",
      "GFX_createFramebuf">>

\* how many times call occurs in log
Occurrences(log, call) == Cardinality({i \in 1..Len(log) : log[i] = call})

\* C12: the set-up calls happen once each, in the claimed order, and all of
\* them before main's loop and before the first drawing call; the calls of
\* an iteration's test begin with GFX_fillScreen and contain GFX_flush at
\* most once, as the last of them, and exactly once by the time the 8-second
\* sleep begins.
C12_SetupOnceFlushOnce ==
    /\ Len(setupLog) <= Len(ClaimedSetup)
    /\ setupLog = SubSeq(ClaimedSetup, 1, Len(setupLog))
    /\ (mpc # "start" \/ iterLog # <<>> => setupLog = ClaimedSetup)
    /\ (iterLog # <<>> => iterLog[1] = "GFX_fillScreen")
    /\ Occurrences(iterLog, "GFX_fillScreen") <= 1
    /\ Occurrences(iterLog, "GFX_flush") <= 1
    /\ (Occurrences(iterLog, "GFX_flush") = 1 =>
           iterLog[Len(iterLog)] = "GFX_flush")
    /\ (mpc = "sleep" =>
           /\ Occurrences(iterLog, "GFX_flush") = 1
           /\ Len(iterLog) >= 2)

\* the capacity test's 41 calls are made, flushed and held for 8 seconds
C12_Witness ==
    /\ mpc = "sleep" /\ slept = 8 /\ prevTest = "testCharacterCapacity"
    /\ Len(iterLog) = 41
    /\ iterLog[40] = "GFX_drawRect" /\ iterLog[41] = "GFX_flush"
    /\ setupLog = ClaimedSetup

=============================================================================
